---- MODULE Spec2Model ----
(***************************************************************************)
(* Render / session orchestration of requests_html.py.                     *)
(*                                                                         *)
(* The model follows the functions of src/requests_html.py as the methods  *)
(* their `self` parameter and the tests make them (render, arender and     *)
(* _async_render on HTML; browser and close on the sessions).              *)
(*                                                                         *)
(*   sessions  the session objects, in order of construction               *)
(*   handles   the browser processes launched so far                       *)
(*   tabs      the number of browser tabs that are open (tab ids 1..tabs)  *)
(*   pages     the HTML objects (Pages), with their lazily built caches    *)
(*   calls     per caller, the call in progress or just finished           *)
(*   concurrent  whether the coroutines of the program run interleaved     *)
(*   run       the AsyncHTMLSession.run call in progress                    *)
(*   nav       the document queried or paginated, and the call on it        *)
(*   job       the render call followed browser operation by operation      *)
(*   parser    the document whose content and encoding are read and written *)
(***************************************************************************)
EXTENDS Integers, Sequences, FiniteSets, TLC

VARIABLES sessions, handles, tabs, pages, calls, concurrent, run, nav, job,
          parser

vars == <<sessions, handles, tabs, pages, calls, concurrent, run, nav, job, parser>>

----------------------------------------------------------------------------
(* Bounds of the exploration *)

NTasks == 2          \* coroutines scheduled on the event loop
NPages == 1          \* Pages fetched before the exploration starts
MaxSessions == 2     \* session objects ever constructed
MaxRetriesArg == 2   \* largest `retries` argument tried
MaxCloses == 2       \* close invocations tried per browser handle
MaxCoros == 3        \* coroutines handed to one run call
MaxHandles == MaxSessions     \* browser processes ever launched
MaxTabs == MaxRetriesArg      \* tabs left open

\* Caller 0 is the plain (blocking) code of the program; callers 1..NTasks
\* are coroutines running on the event loop.
Tasks == 1..NTasks
Callers == 0..NTasks
InLoop(t) == t # 0
Pages == 1..NPages

----------------------------------------------------------------------------
(* Values *)

DEFAULT_URL == "https://example.org/"
FetchedUrl == "http://site/a"

\* Pages built from a string keep the default URL, fetched ones their own.
PageUrl(p) == IF p % 2 = 0 THEN DEFAULT_URL ELSE FetchedUrl

\* Non-empty documents a tab can serialize; "" stands for both None and the
\* empty string (the code only tests `if content` / `if not content`).
Htmls == {"r1", "r2"}
FetchedHtml == "h0"

\* What one attempt's browser does: a non-timeout exception after the tab was
\* opened, empty HTML, a navigation timeout, or a non-empty document.
Fails == {"exc", "empty"}
Terminals == {"timeout"} \cup Htmls

\* The browser's behaviour over the attempts of one call, up to and including
\* the first attempt that times out or yields a document.
Plans(R) ==
    [1..R -> Fails] \cup
    UNION { { Append(f, x) : f \in [1..n -> Fails], x \in Terminals } : n \in 0..(R-1) }

\* Plans(R) for every retry budget tried.
PlanSet == [R \in 0..MaxRetriesArg |-> Plans(R)]

RenderOps == {"render", "arender"}

\* A marker of next(): a string, or (after HTML.__init__) a nested list.
StrItem(w) == [kind |-> "str", s |-> w]
ListItem == [kind |-> "list", s |-> ""]

DEFAULT_NEXT_SYMBOL == <<StrItem("next"), StrItem("more"), StrItem("older")>>

\* HTML.__init__: self.next_symbol = [DEFAULT_NEXT_SYMBOL], a list whose only
\* element is the list of default markers.
InitNextSymbol == <<ListItem>>

IdleCall ==
    [op |-> "idle", pc |-> "idle", sess |-> 0, page |-> 0, retries |-> 0,
     keep |-> FALSE, inLoop |-> FALSE, plan |-> <<>>, attempts |-> 0,
     content |-> "", tab |-> 0, handle |-> 0, status |-> "none",
     entered |-> FALSE, warm |-> FALSE, launches |-> 0]

HandleLive(h) == h \in 1..Len(handles) /\ handles[h].closes = 0


----------------------------------------------------------------------------
(* Session objects *)

\* BaseSession.__init__: no _browser attribute yet (browser = 0), transport
\* open.
NewSession(kind) == [kind |-> kind, browser |-> 0, released |-> FALSE]

\* HTML.__init__ without a session argument: session or (async_ and
\* AsyncHTMLSession()) or HTMLSession() constructs a synchronous session.
DefaultSession == NewSession("sync")

\* The getter without its is_running() test: the launch is driven whatever
\* the state of the loop.
HTMLSessionBrowser_NoLoopCheck(s, inLoop, launchOk) ==
    IF sessions[s].browser # 0
    THEN [status |-> "ok", h |-> sessions[s].browser, launched |-> FALSE,
          tried |-> FALSE]
    ELSE IF launchOk
         THEN [status |-> "ok", h |-> Len(handles) + 1, launched |-> TRUE,
               tried |-> TRUE]
         ELSE [status |-> "LaunchError", h |-> 0, launched |-> FALSE,
               tried |-> TRUE]

\* The getter storing the process object before the launch has completed: a
\* failed launch leaves it in self._browser.
HTMLSessionBrowser_KeepsFailedLaunch(s, inLoop, launchOk) ==
    IF sessions[s].browser # 0
    THEN [status |-> "ok", h |-> sessions[s].browser, launched |-> FALSE,
          tried |-> FALSE]
    ELSE IF inLoop
         THEN [status |-> "RuntimeError", h |-> 0, launched |-> FALSE,
               tried |-> FALSE]
         ELSE IF launchOk
              THEN [status |-> "ok", h |-> Len(handles) + 1, launched |-> TRUE,
                    tried |-> TRUE]
              ELSE [status |-> "LaunchError", h |-> Len(handles) + 1,
                    launched |-> TRUE, tried |-> TRUE]

\* HTMLSession.browser: the cached handle if the session has one; otherwise
\* RuntimeError when the event loop is running, else the launch driven to
\* completion (which may itself fail: nothing is then stored).  `tried`
\* tells whether pyppeteer.launch was called.
HTMLSessionBrowser(s, inLoop, launchOk) ==
    IF sessions[s].browser # 0
    THEN [status |-> "ok", h |-> sessions[s].browser, launched |-> FALSE,
          tried |-> FALSE]
    ELSE IF inLoop
         THEN [status |-> "RuntimeError", h |-> 0, launched |-> FALSE,
               tried |-> FALSE]
         ELSE IF launchOk
              THEN [status |-> "ok", h |-> Len(handles) + 1, launched |-> TRUE,
                    tried |-> TRUE]
              ELSE [status |-> "LaunchError", h |-> 0, launched |-> FALSE,
                    tried |-> TRUE]

\* self._browser = <launched process> on session s.
Launched(s) == Append(handles, [owner |-> s, closes |-> 0])

----------------------------------------------------------------------------
(* One render attempt and the retry loop *)

\* _async_render for an attempt whose browser behaves as `o`.  `usable` is
\* false when newPage() cannot be reached (browser process closed, or the
\* blocking loop refuses to run): the attempt then raises before a tab exists.
\* `tbs` counts the tabs that are open: a tab opened and closed within the
\* attempt leaves it as it was, a tab left open is tab tbs + 1.
AsyncRender(o, keep, usable, tbs) ==
    IF ~usable
    THEN [raised |-> "exc", content |-> "", page |-> 0, tabs |-> tbs]
    ELSE CASE o = "timeout" ->
                [raised |-> "TimeoutError", content |-> "", page |-> 0, tabs |-> tbs]
           [] o = "exc" ->
                [raised |-> "exc", content |-> "", page |-> 0, tabs |-> tbs + 1]
           [] OTHER ->
                [raised |-> "none",
                 content |-> IF o = "empty" THEN "" ELSE o,
                 page |-> IF keep THEN tbs + 1 ELSE 0,
                 tabs |-> IF keep THEN tbs + 1 ELSE tbs]

\* The loop body with `except Exception` placed before `except TimeoutError`:
\* a timeout is handled as any other exception.
RetryBody_TimeoutAsException(c, r) ==
    LET c1 == [c EXCEPT !.attempts = @ + 1]
    IN  CASE r.raised \in {"TimeoutError", "exc"} ->
                [c1 EXCEPT !.pc = "done", !.status = "NameError"]
          [] OTHER -> [c1 EXCEPT !.content = r.content, !.tab = r.page]

\* The try/except of one loop iteration.  TimeoutError is re-raised as
\* TimeoutError.  Any other exception enters `except Exception`, whose body
\* calls logging.error: the module never imports logging, so the handler
\* raises NameError, which leaves render/arender.
RetryBody(c, r) ==
    LET c1 == [c EXCEPT !.attempts = @ + 1]
    IN  CASE r.raised = "TimeoutError" -> [c1 EXCEPT !.pc = "done", !.status = "TimeoutError"]
          [] r.raised = "exc" -> [c1 EXCEPT !.pc = "done", !.status = "NameError"]
          [] OTHER -> [c1 EXCEPT !.content = r.content, !.tab = r.page]

\* One iteration of `for _ in range(retries)` that reaches the try block.
\* The plan keeps what the browser did in this attempt.
Attempt(c, tbs, usable) ==
    LET i == c.attempts + 1
        o == IF usable THEN c.plan[i] ELSE "exc"
        r == AsyncRender(o, c.keep, usable, tbs)
    IN  [c |-> RetryBody([c EXCEPT !.plan[i] = o], r), tabs |-> r.tabs]

\* `for _ in range(retries): if content: break`
LoopEnded(c) == c.pc # "loop" \/ c.content # "" \/ c.attempts >= c.retries

\* The whole blocking loop of render (each attempt is driven to completion by
\* run_until_complete before the next starts).
RECURSIVE RetryLoop(_, _, _)
RetryLoop(c, tbs, usable) ==
    IF LoopEnded(c)
    THEN [c |-> c, tabs |-> tbs]
    ELSE LET st == Attempt(c, tbs, usable)
         IN  RetryLoop(st.c, st.tabs, usable)

\* The code after the loop with self.page assigned before the content test.
AfterLoop_PageAssignedFirst(c, pg, newSession) ==
    IF c.pc = "done"
    THEN [c |-> c, page |-> pg, created |-> FALSE]
    ELSE IF c.content = ""
         THEN [c |-> [c EXCEPT !.pc = "done", !.status = "MaxRetries"],
               page |-> [pg EXCEPT !.page = c.tab], created |-> FALSE]
         ELSE [c |-> [c EXCEPT !.pc = "done", !.status = "ok"],
               page |-> [pg EXCEPT !.html = c.content, !.session = newSession,
                                   !.page = c.tab, !.encoding = "", !.lxml = "",
                                   !.pq = "", !.next_symbol = InitNextSymbol,
                                   !.skip_anchors = TRUE],
               created |-> TRUE]

\* The code after the loop without `self.page = page`: the Page keeps the
\* page = None of the new object's __dict__.
AfterLoop_PageNotAssigned(c, pg, newSession) ==
    IF c.pc = "done"
    THEN [c |-> c, page |-> pg, created |-> FALSE]
    ELSE IF c.content = ""
         THEN [c |-> [c EXCEPT !.pc = "done", !.status = "MaxRetries"],
               page |-> pg, created |-> FALSE]
         ELSE [c |-> [c EXCEPT !.pc = "done", !.status = "ok"],
               page |-> [pg EXCEPT !.html = c.content, !.session = newSession,
                                   !.page = 0, !.encoding = "", !.lxml = "",
                                   !.pq = "", !.next_symbol = InitNextSymbol,
                                   !.skip_anchors = TRUE],
               created |-> TRUE]

\* The code after the loop assigning only the content (self.html = content):
\* the caches of the Page stay.
AfterLoop_KeepsCaches(c, pg, newSession) ==
    IF c.pc = "done"
    THEN [c |-> c, page |-> pg, created |-> FALSE]
    ELSE IF c.content = ""
         THEN [c |-> [c EXCEPT !.pc = "done", !.status = "MaxRetries"],
               page |-> pg, created |-> FALSE]
         ELSE [c |-> [c EXCEPT !.pc = "done", !.status = "ok"],
               page |-> [pg EXCEPT !.html = c.content, !.session = newSession,
                                   !.page = c.tab],
               created |-> TRUE]

\* The code after the loop: MaxRetries when no content; otherwise a new HTML
\* object is built from (self.url, content) with no session argument, its
\* __dict__ overwrites the Page's (html, url, a newly constructed session,
\* page = None, _encoding = _lxml = _pq = None, skip_anchors = True and
\* next_symbol = [DEFAULT_NEXT_SYMBOL]), and self.page becomes the attempt's
\* tab.  The Page's browser attribute is not in the new __dict__
\* and stays.
AfterLoop(c, pg, newSession) ==
    IF c.pc = "done"
    THEN [c |-> c, page |-> pg, created |-> FALSE]
    ELSE IF c.content = ""
         THEN [c |-> [c EXCEPT !.pc = "done", !.status = "MaxRetries"],
               page |-> pg, created |-> FALSE]
         ELSE [c |-> [c EXCEPT !.pc = "done", !.status = "ok"],
               page |-> [pg EXCEPT !.html = c.content, !.session = newSession,
                                   !.page = c.tab, !.encoding = "", !.lxml = "",
                                   !.pq = "", !.next_symbol = InitNextSymbol,
                                   !.skip_anchors = TRUE],
               created |-> TRUE]

----------------------------------------------------------------------------
(* AsyncHTMLSession.run: the fan-out call.                                  *)

\* What a coroutine handed to run settles with: a value, or an exception.
Vals == {"a", "b"}
Settlements == Vals \cup {"err"}

\* No run call in progress.
\*   n        number of coroutines handed to run
\*   res      what coroutine i settles with
\*   settled  the tasks that have settled, in order of completion
\*   out      the tasks whose results run returned, in the order of the list
RunIdle ==
    [pc |-> "idle", n |-> 0, res |-> <<>>, settled |-> <<>>, out |-> <<>>,
     status |-> "none"]

\* No document call in progress.
NavIdle == [pc |-> "idle"]

\* No render call followed operation by operation.
JobIdle == [pc |-> "idle"]

\* No document followed through reads and writes of its content.
ParserIdle == [op |-> "none"]

----------------------------------------------------------------------------
(* Initial state: one session, synchronous or asynchronous, has been        *)
(* constructed and has fetched the Pages; nothing was rendered yet.         *)

Init ==
    /\ sessions \in { <<NewSession(k)>> : k \in {"sync", "async"} }
    /\ handles = <<>>
    /\ tabs = 0
    /\ pages = [p \in Pages |-> [session |-> 1, origin |-> 1, url |-> PageUrl(p),
                                 html |-> FetchedHtml, page |-> 0, browser |-> 0,
                                 encoding |-> "", lxml |-> "", pq |-> "",
                                 next_symbol |-> InitNextSymbol,
                                 skip_anchors |-> TRUE]]
    /\ calls = [t \in Callers |-> IdleCall]
    /\ concurrent = FALSE
    /\ run = RunIdle
    /\ nav = NavIdle
    /\ job = JobIdle
    /\ parser = ParserIdle

----------------------------------------------------------------------------
(* Actions *)

\* Caller t may start a call: it has none in progress and every finished
\* call has returned to its caller.  Plain code runs only while no coroutine
\* is in progress (the loop is not running).  A program that awaits one call
\* after the other has no two calls in progress; coroutines scheduled
\* together (asyncio.ensure_future / asyncio.wait) interleave at their
\* suspension points.
CanCall(t) ==
    /\ \A u \in Callers : calls[u].pc # "done"
    /\ calls[t].pc = "idle"
    /\ (~InLoop(t) \/ ~concurrent) => \A u \in Tasks : calls[u].pc = "idle"

\* A suspended coroutine may resume.
CanResume(t) ==
    /\ \A u \in Callers : calls[u].pc # "done"
    /\ InLoop(t)

\* The end of a step of render/arender: when the loop has ended the code
\* after it runs in the same step (no suspension point lies between the last
\* attempt and the return).
Settle(t, c, p, pg, ss, hs, tbs) ==
    LET fin == IF LoopEnded(c)
               THEN AfterLoop(c, pg, Len(ss) + 1)
               ELSE [c |-> c, page |-> pg, created |-> FALSE]
    IN  /\ fin.created => Len(ss) < MaxSessions
        /\ calls' = [calls EXCEPT ![t] = fin.c]
        /\ pages' = [pages EXCEPT ![p] = fin.page]
        /\ sessions' = IF fin.created THEN Append(ss, DefaultSession) ELSE ss
        /\ handles' = hs
        /\ tabs' = tbs
        /\ UNCHANGED <<concurrent, run, nav, job, parser>>

\* session.browser on a synchronous session, from plain code or from a
\* coroutine running on the event loop.
SessionBrowser(t, s, launchOk) ==
    LET g == HTMLSessionBrowser(s, InLoop(t), launchOk)
    IN  /\ CanCall(t)
        /\ sessions[s].kind = "sync"
        /\ g.launched => Len(handles) < MaxHandles
        /\ calls' = [calls EXCEPT ![t] =
                        [IdleCall EXCEPT !.op = "browser", !.pc = "done", !.sess = s,
                                         !.inLoop = InLoop(t),
                                         !.handle = IF g.status = "ok" THEN g.h ELSE 0,
                                         !.status = g.status,
                                         !.launches = IF g.tried THEN 1 ELSE 0]]
        /\ handles' = IF g.launched THEN Launched(s) ELSE handles
        /\ sessions' = IF g.launched THEN [sessions EXCEPT ![s].browser = g.h]
                                     ELSE sessions
        /\ UNCHANGED <<tabs, pages, concurrent, run, nav, job, parser>>

\* page.render(retries=R, keep_page=keep) on a Page of a synchronous session.
\* The call blocks its caller from the browser access to the return; `plan`
\* is what the browser does in its attempts.
Render(t, p, R, keep, launchOk, plan) ==
    LET s == pages[p].session
        g == HTMLSessionBrowser(s, InLoop(t), launchOk)
        hs == IF g.launched THEN Launched(s) ELSE handles
        ss == IF g.launched THEN [sessions EXCEPT ![s].browser = g.h] ELSE sessions
        c0 == [IdleCall EXCEPT !.op = "render", !.sess = s, !.page = p,
                               !.retries = R, !.keep = keep, !.inLoop = InLoop(t),
                               !.warm = pages[p].pq # "",
                               !.launches = IF g.tried THEN 1 ELSE 0]
    IN  /\ CanCall(t)
        /\ sessions[s].kind = "sync"
        /\ g.launched => Len(handles) < MaxHandles
        /\ IF g.status # "ok"
           THEN /\ calls' = [calls EXCEPT ![t] =
                                [c0 EXCEPT !.pc = "done", !.status = g.status]]
                /\ sessions' = ss
                /\ handles' = hs
                /\ UNCHANGED <<tabs, pages, concurrent, run, nav, job, parser>>
           ELSE LET c1 == [c0 EXCEPT !.pc = "loop", !.handle = g.h, !.plan = plan,
                                     !.entered = TRUE]
                    usable == hs[g.h].closes = 0 /\ ~InLoop(t)
                    looped == RetryLoop(c1, tabs, usable)
                IN  /\ looped.tabs <= MaxTabs
                    /\ Settle(t, looped.c, p, [pages[p] EXCEPT !.browser = g.h],
                              ss, hs, looped.tabs)

\* `await session.browser` on an asynchronous session: the handle at once if
\* the session has one, otherwise the coroutine suspends in pyppeteer.launch.
ABrowser(t, s) ==
    /\ CanCall(t)
    /\ InLoop(t)
    /\ sessions[s].kind = "async"
    /\ calls' = [calls EXCEPT ![t] =
                    IF sessions[s].browser # 0
                    THEN [IdleCall EXCEPT !.op = "abrowser", !.pc = "done", !.sess = s,
                                          !.inLoop = TRUE,
                                          !.handle = sessions[s].browser,
                                          !.status = "ok"]
                    ELSE [IdleCall EXCEPT !.op = "abrowser", !.pc = "launching",
                                          !.sess = s, !.inLoop = TRUE]]
    /\ UNCHANGED <<sessions, handles, tabs, pages, concurrent, run, nav, job, parser>>

\* `await page.arender(retries=R, keep_page=keep)`, up to its first
\* suspension.  On a Page whose session is synchronous the browser getter
\* runs on the running loop: RuntimeError without a browser, and with one the
\* await of the Browser object raises TypeError.
ARender(t, p, R, keep) ==
    LET s == pages[p].session
        c0 == [IdleCall EXCEPT !.op = "arender", !.sess = s, !.page = p,
                               !.retries = R, !.keep = keep, !.inLoop = TRUE,
                               !.warm = pages[p].pq # ""]
    IN  /\ CanCall(t)
        /\ InLoop(t)
        /\ IF sessions[s].kind = "sync"
           THEN /\ calls' = [calls EXCEPT ![t] =
                                [c0 EXCEPT !.pc = "done",
                                           !.status = IF sessions[s].browser = 0
                                                      THEN "RuntimeError"
                                                      ELSE "TypeError"]]
                /\ UNCHANGED <<sessions, handles, tabs, pages, concurrent, run, nav, job, parser>>
           ELSE IF sessions[s].browser = 0
           THEN /\ calls' = [calls EXCEPT ![t] = [c0 EXCEPT !.pc = "launching"]]
                /\ UNCHANGED <<sessions, handles, tabs, pages, concurrent, run, nav, job, parser>>
           ELSE Settle(t, [c0 EXCEPT !.pc = "loop", !.handle = sessions[s].browser,
                                     !.entered = TRUE],
                       p, [pages[p] EXCEPT !.browser = sessions[s].browser],
                       sessions, handles, tabs)

\* pyppeteer.launch returns (or raises) inside BaseSession.browser: the
\* coroutine stores the new process in self._browser and returns it; arender
\* goes on to its loop.
BrowserLaunched(t, launchOk) ==
    LET c == calls[t]
        s == c.sess
        h == Len(handles) + 1
        ss == [sessions EXCEPT ![s].browser = h]
    IN  /\ CanResume(t)
        /\ c.pc = "launching"
        /\ IF ~launchOk
           THEN /\ calls' = [calls EXCEPT ![t] =
                                [c EXCEPT !.pc = "done", !.status = "LaunchError",
                                          !.launches = @ + 1]]
                /\ UNCHANGED <<sessions, handles, tabs, pages, concurrent, run, nav, job, parser>>
           ELSE /\ Len(handles) < MaxHandles
                /\ IF c.op = "abrowser"
                   THEN /\ calls' = [calls EXCEPT ![t] =
                                        [c EXCEPT !.pc = "done", !.handle = h,
                                                  !.status = "ok",
                                                  !.launches = @ + 1]]
                        /\ sessions' = ss
                        /\ handles' = Launched(s)
                        /\ UNCHANGED <<tabs, pages, concurrent, run, nav, job, parser>>
                   ELSE Settle(t, [c EXCEPT !.pc = "loop", !.handle = h,
                                            !.entered = TRUE, !.launches = @ + 1],
                               c.page, [pages[c.page] EXCEPT !.browser = h],
                               ss, Launched(s), tabs)

\* One attempt of arender, in which the browser does `o`:
\* `await self._async_render(...)`, which opens its tab on the Page's browser
\* attribute, then the handlers and, when the loop ends with it, the code
\* after the loop.
ARenderAttempt(t, o) ==
    LET c == calls[t]
        h == pages[c.page].browser
        st == Attempt([c EXCEPT !.plan = Append(@, o)], tabs, HandleLive(h))
    IN  /\ CanResume(t)
        /\ c.pc = "loop"
        /\ c.op = "arender"
        /\ st.tabs <= MaxTabs
        /\ Settle(t, st.c, c.page, pages[c.page], sessions, handles, st.tabs)

\* The lazily computed properties of a Page: each is derived from the content
\* on first use and kept (encoding from _html; lxml from html; pq from lxml).
Cached(pg) ==
    LET e == IF pg.encoding = "" THEN pg.html ELSE pg.encoding
        l == IF pg.lxml = "" THEN pg.html ELSE pg.lxml
        q == IF pg.pq = "" THEN l ELSE pg.pq
    IN  [pg EXCEPT !.encoding = e, !.lxml = l, !.pq = q]

\* page.find(selector) (and links, which calls it): the elements are taken
\* from self.pq; the call records the content the answer was computed from.
Find(t, p) ==
    /\ CanCall(t)
    /\ pages' = [pages EXCEPT ![p] = Cached(pages[p])]
    /\ calls' = [calls EXCEPT ![t] =
                    [IdleCall EXCEPT !.op = "find", !.pc = "done", !.page = p,
                                     !.inLoop = InLoop(t), !.status = "ok",
                                     !.content = Cached(pages[p]).pq]]
    /\ UNCHANGED <<sessions, handles, tabs, concurrent, run, nav, job, parser>>

\* Browser.close() invoked on handle h.
CloseInvoked(h) == [handles EXCEPT ![h].closes = @ + 1]

\* HTMLSession.close, from plain code: closes the browser if the session has
\* the _browser attribute (it is never deleted), then requests.Session.close.
Close(t, s) ==
    LET h == sessions[s].browser
    IN  /\ CanCall(t)
        /\ ~InLoop(t)
        /\ sessions[s].kind = "sync"
        /\ h # 0 => handles[h].closes < MaxCloses
        /\ handles' = IF h # 0 THEN CloseInvoked(h) ELSE handles
        /\ sessions' = [sessions EXCEPT ![s].released = TRUE]
        /\ calls' = [calls EXCEPT ![t] =
                        [IdleCall EXCEPT !.op = "close", !.pc = "done", !.sess = s,
                                         !.handle = h, !.status = "ok"]]
        /\ UNCHANGED <<tabs, pages, concurrent, run, nav, job, parser>>

\* `await super().close()` in AsyncHTMLSession.close: requests.Session.close
\* runs and returns None, and awaiting None raises TypeError.
AwaitSuperClose(t, c, s) ==
    /\ sessions' = [sessions EXCEPT ![s].released = TRUE]
    /\ calls' = [calls EXCEPT ![t] = [c EXCEPT !.pc = "done", !.status = "TypeError"]]

\* `await session.close()` on an asynchronous session, up to its first
\* suspension (the await of Browser.close) or, without a browser, to its end.
AClose(t, s) ==
    LET h == sessions[s].browser
        c0 == [IdleCall EXCEPT !.op = "aclose", !.sess = s, !.inLoop = TRUE,
                               !.handle = h]
    IN  /\ CanCall(t)
        /\ InLoop(t)
        /\ sessions[s].kind = "async"
        /\ IF h # 0
           THEN /\ handles[h].closes < MaxCloses
                /\ handles' = CloseInvoked(h)
                /\ calls' = [calls EXCEPT ![t] = [c0 EXCEPT !.pc = "closing"]]
                /\ UNCHANGED <<sessions, tabs, pages, concurrent, run, nav, job, parser>>
           ELSE /\ AwaitSuperClose(t, c0, s)
                /\ UNCHANGED <<handles, tabs, pages, concurrent, run, nav, job, parser>>

\* Browser.close() has returned: the rest of AsyncHTMLSession.close.
ACloseResume(t) ==
    /\ CanResume(t)
    /\ calls[t].pc = "closing"
    /\ AwaitSuperClose(t, calls[t], calls[t].sess)
    /\ UNCHANGED <<handles, tabs, pages, concurrent, run, nav, job, parser>>

\* The finished call returns (or raises) to its caller.
Return(t) ==
    /\ calls[t].pc = "done"
    /\ calls' = [calls EXCEPT ![t] = IdleCall]
    /\ UNCHANGED <<sessions, handles, tabs, pages, concurrent, run, nav, job, parser>>

Next ==
    \/ \E t \in Callers, s \in 1..Len(sessions), launchOk \in BOOLEAN :
          SessionBrowser(t, s, launchOk)
    \/ \E t \in Callers, p \in Pages, R \in 0..MaxRetriesArg, keep \in BOOLEAN,
          launchOk \in BOOLEAN :
          \E plan \in PlanSet[R] : Render(t, p, R, keep, launchOk, plan)
    \/ \E t \in Tasks, s \in 1..Len(sessions) : ABrowser(t, s)
    \/ \E t \in Tasks, p \in Pages, R \in 0..MaxRetriesArg, keep \in BOOLEAN :
          ARender(t, p, R, keep)
    \/ \E t \in Tasks, launchOk \in BOOLEAN : BrowserLaunched(t, launchOk)
    \/ \E t \in Tasks, o \in Fails \cup Terminals : ARenderAttempt(t, o)
    \/ \E t \in Callers, s \in 1..Len(sessions) : Close(t, s)
    \/ \E t \in Tasks, s \in 1..Len(sessions) : AClose(t, s)
    \/ \E t \in Tasks : ACloseResume(t)
    \/ \E t \in Callers, p \in Pages : Find(t, p)
    \/ \E t \in Callers : Return(t)

\* A program that makes one call at a time.
Spec == Init /\ [][Next]_vars

\* A program whose coroutines run interleaved on an asynchronous session.
InitConc ==
    /\ sessions = <<NewSession("async")>>
    /\ handles = <<>>
    /\ tabs = 0
    /\ pages = [p \in Pages |-> [session |-> 1, origin |-> 1, url |-> PageUrl(p),
                                 html |-> FetchedHtml, page |-> 0, browser |-> 0,
                                 encoding |-> "", lxml |-> "", pq |-> "",
                                 next_symbol |-> InitNextSymbol,
                                 skip_anchors |-> TRUE]]
    /\ calls = [t \in Callers |-> IdleCall]
    /\ concurrent = TRUE
    /\ run = RunIdle
    /\ nav = NavIdle
    /\ job = JobIdle
    /\ parser = ParserIdle

SpecConc == InitConc /\ [][Next]_vars

----------------------------------------------------------------------------
(* AsyncHTMLSession.run *)

Range(f) == { f[i] : i \in 1..Len(f) }

\* The orders in which a set of tasks can be enumerated.
Orders(S) ==
    { f \in [1..Cardinality(S) -> S] :
        \A i, j \in 1..Cardinality(S) : i # j => f[i] # f[j] }

\* asyncio.wait with return_when = FIRST_COMPLETED.
WaitReturns_FirstCompleted(r) == Len(r.settled) >= 1

\* asyncio.wait(tasks) returns (default return_when = ALL_COMPLETED) once
\* every task has settled; `done` is then the set of the settled tasks.
WaitReturns(r) == Len(r.settled) = r.n

\* `for task in done`: done is a set of Task objects, enumerated in hash
\* order, which depends on the addresses of the objects; any order can come
\* out.
DoneIteration(r) == Orders(Range(r.settled))

\* [task.result() for task in done]: the first task in the enumeration that
\* settled with an exception re-raises it out of run.
Collect(r, order) ==
    IF \E i \in 1..Len(order) : r.res[order[i]] = "err"
    THEN [r EXCEPT !.pc = "raised", !.status = "err"]
    ELSE [r EXCEPT !.pc = "returned", !.status = "ok", !.out = order]

\* The list run returned.
Returned(r) == [i \in 1..Len(r.out) |-> r.res[r.out[i]]]

\* session.run(c1, ..., cn): one task per coroutine is created, in order;
\* asyncio.wait refuses an empty set of tasks with ValueError.
RunCall(n, res) ==
    /\ run.pc = "idle"
    /\ run' = IF n = 0
              THEN [RunIdle EXCEPT !.pc = "raised", !.status = "ValueError"]
              ELSE [RunIdle EXCEPT !.pc = "waiting", !.n = n, !.res = res]
    /\ UNCHANGED <<sessions, handles, tabs, pages, calls, concurrent, nav, job, parser>>

\* The loop runs the tasks interleaved; task i settles.
TaskSettles(i) ==
    /\ run.pc = "waiting"
    /\ i \in 1..run.n
    /\ i \notin Range(run.settled)
    /\ run' = [run EXCEPT !.settled = Append(@, i)]
    /\ UNCHANGED <<sessions, handles, tabs, pages, calls, concurrent, nav, job, parser>>

\* asyncio.wait returns and run collects the results.
RunCollects ==
    /\ run.pc = "waiting"
    /\ WaitReturns(run)
    /\ \E order \in DoneIteration(run) : run' = Collect(run, order)
    /\ UNCHANGED <<sessions, handles, tabs, pages, calls, concurrent, nav, job, parser>>

\* run has returned or raised; the program goes on.
RunOver ==
    /\ run.pc \in {"returned", "raised"}
    /\ run' = RunIdle
    /\ UNCHANGED <<sessions, handles, tabs, pages, calls, concurrent, nav, job, parser>>

NextRun ==
    \/ \E n \in 0..MaxCoros : \E res \in [1..n -> Settlements] : RunCall(n, res)
    \/ \E i \in 1..MaxCoros : TaskSettles(i)
    \/ RunCollects
    \/ RunOver

\* A program that fans coroutines out with AsyncHTMLSession.run.
SpecRun == InitConc /\ [][NextRun]_vars

----------------------------------------------------------------------------
(* Strings and URLs.  A string is a sequence of tokens: the separators      *)
(* " ", ":", "//", "/", "#" and words (scheme, host, path segment, text).   *)

\* s[i..], and s up to and excluding position i.
From(s, i) == SubSeq(s, i, Len(s))
Upto(s, i) == SubSeq(s, 1, i - 1)

\* str.startswith
StartsWith(s, p) == Len(s) >= Len(p) /\ SubSeq(s, 1, Len(p)) = p

\* str.strip: leading and trailing whitespace removed.
RECURSIVE LStrip(_)
LStrip(s) == IF s # <<>> /\ s[1] = " " THEN LStrip(Tail(s)) ELSE s

RECURSIVE RStrip(_)
RStrip(s) == IF s # <<>> /\ s[Len(s)] = " " THEN RStrip(Upto(s, Len(s))) ELSE s

Strip(s) == RStrip(LStrip(s))

\* The positions of token x in s.
Positions(s, x) == { i \in 1..Len(s) : s[i] = x }

Max(S) == CHOOSE x \in S : \A y \in S : y <= x
Min(S) == CHOOSE x \in S : \A y \in S : x <= y

\* Schemes urllib knows to be hierarchical (uses_relative, uses_netloc), and
\* the others that occur in hrefs.
RelativeSchemes == {"", "http", "https"}
Schemes == {"http", "https", "mailto", "javascript"}

\* urllib.parse.urlparse: scheme, netloc, path and fragment of a URL.
urlparse(s) ==
    LET hasScheme == Len(s) >= 2 /\ s[2] = ":" /\ s[1] \in Schemes
        r1 == IF hasScheme THEN From(s, 3) ELSE s
        hasNet == Len(r1) >= 2 /\ r1[1] = "//"
        r2 == IF hasNet THEN From(r1, 3) ELSE r1
        hash == Positions(r2, "#")
    IN  [scheme |-> IF hasScheme THEN s[1] ELSE "",
         netloc |-> IF hasNet THEN r1[2] ELSE "",
         path |-> IF hash = {} THEN r2 ELSE Upto(r2, Min(hash)),
         fragment |-> IF hash = {} THEN <<>> ELSE From(r2, Min(hash) + 1)]

\* urllib.parse.urlunparse.
urlunparse(u) ==
    LET p == IF u.netloc # "" /\ u.path # <<>> /\ u.path[1] # "/"
             THEN <<"/">> \o u.path ELSE u.path
    IN  (IF u.scheme # "" THEN <<u.scheme, ":">> ELSE <<>>)
        \o (IF u.netloc # "" THEN <<"//", u.netloc>> ELSE <<>>)
        \o p
        \o (IF u.fragment # <<>> THEN <<"#">> \o u.fragment ELSE <<>>)

\* The directory of a path: everything up to and including its last "/"
\* ("/" for the empty path, nothing for a single relative segment).
PathDir(p) ==
    IF p = <<>> THEN <<"/">>
    ELSE IF Positions(p, "/") = {} THEN <<>>
    ELSE SubSeq(p, 1, Max(Positions(p, "/")))

\* urllib.parse.urljoin (URLs without dot segments, parameters or query).
urljoin(base, url) ==
    LET b == urlparse(base)
        u0 == urlparse(url)
        u == [u0 EXCEPT !.scheme = IF @ = "" THEN b.scheme ELSE @]
    IN  IF base = <<>> THEN url
        ELSE IF url = <<>> THEN base
        ELSE IF u.scheme # b.scheme \/ u.scheme \notin RelativeSchemes THEN url
        ELSE IF u.netloc # "" THEN urlunparse(u)
        ELSE IF u.path = <<>>
             THEN urlunparse([u EXCEPT !.netloc = b.netloc, !.path = b.path])
        ELSE IF u.path[1] = "/"
             THEN urlunparse([u EXCEPT !.netloc = b.netloc])
        ELSE urlunparse([u EXCEPT !.netloc = b.netloc,
                                  !.path = PathDir(b.path) \o u.path])

----------------------------------------------------------------------------
(* Documents.  An attribute is <<>> when absent and <<s>> when present with *)
(* the string s.  An anchor has its href attribute, the words of its text,  *)
(* and the tokens of its rel and class attributes.                          *)

NoAttr == <<>>
Attr(s) == <<s>>

\* attrs.get(name, ''): the value, or the empty string.
GetOrEmpty(a) == IF a = NoAttr THEN <<>> ELSE a[1]

\* HTML.__init__ / BaseParser.__init__: a new document object.
NewHTML(url, bases, anchors, kind) ==
    [url |-> url, bases |-> bases, anchors |-> anchors, skip_anchors |-> TRUE,
     next_symbol |-> InitNextSymbol, session |-> kind]

\* links: the stripped hrefs that pass the filter.  The first conjunct of the
\* filter already rejects every href that starts with "#".
LinkKept(href, skip_anchors) ==
    /\ href # <<>>
    /\ ~ ( \/ StartsWith(href, <<"#">>)
           \/ StartsWith(href, <<"javascript", ":">>)
           \/ StartsWith(href, <<"mailto", ":">>) )
    /\ (~StartsWith(href, <<"#">>) \/ ~skip_anchors)

links(d) ==
    { Strip(GetOrEmpty(d.anchors[i].href)) :
        i \in { j \in 1..Len(d.anchors) :
                  LinkKept(Strip(GetOrEmpty(d.anchors[j].href)), d.skip_anchors) } }

\* '/'.join(path.split('/')[:-1]) + '/'
DropLastSegment(path) ==
    IF Positions(path, "/") = {} THEN <<"/">>
    ELSE SubSeq(path, 1, Max(Positions(path, "/")))

\* base_url: the stripped href of the first <base> element if it is not
\* empty, otherwise the page's URL without its last path segment.
base_url(d) ==
    LET href == IF d.bases = <<>> THEN <<>> ELSE Strip(GetOrEmpty(d.bases[1]))
        u == urlparse(d.url)
    IN  IF href # <<>> THEN href
        ELSE urlunparse([u EXCEPT !.path = DropLastSegment(u.path)])

\* _make_absolute with a base that ignores the <base> element.
MakeAbsolute_PageUrlBase(d, link) ==
    LET u == urlparse(link)
        pu == urlparse(d.url)
        base == urlunparse([pu EXCEPT !.path = DropLastSegment(pu.path)])
    IN  IF u.netloc = "" THEN urljoin(base, link)
        ELSE IF u.scheme = ""
             THEN urlunparse([u EXCEPT !.scheme = urlparse(base).scheme])
        ELSE urlunparse(u)

\* _make_absolute
MakeAbsolute(d, link) ==
    LET u == urlparse(link)
    IN  IF u.netloc = "" THEN urljoin(base_url(d), link)
        ELSE IF u.scheme = ""
             THEN urlunparse([u EXCEPT !.scheme = urlparse(base_url(d)).scheme])
        ELSE urlunparse(u)

\* absolute_links
absolute_links(d) == { MakeAbsolute(d, l) : l \in links(d) }

\* str.lower on the words that occur in anchor texts and markers.
Lower(w) ==
    CASE w = "Next" -> "next"
      [] w = "More" -> "more"
      [] OTHER -> w

\* Words that contain 'next', and words that contain 'page'.
NextWords == {"next", "btn-next"}
PageWords == {"page2"}

\* c.lower() in element.full_text.lower()
TextContains(text, c) == \E i \in 1..Len(text) : Lower(text[i]) = Lower(c)

\* any(c.lower() in text for c in containing): the markers are tried in
\* order; a marker that is a list has no lower() and raises AttributeError.
RECURSIVE AnyMarker(_, _)
AnyMarker(containing, text) ==
    IF containing = <<>> THEN "no"
    ELSE IF Head(containing).kind = "list" THEN "AttributeError"
    ELSE IF TextContains(text, Head(containing).s) THEN "yes"
    ELSE AnyMarker(Tail(containing), text)

SelectSeq2(sq, keep) ==
    LET F[i \in 0..Len(sq)] ==
            IF i = 0 THEN <<>>
            ELSE IF i \in keep THEN Append(F[i - 1], sq[i]) ELSE F[i - 1]
    IN  F[Len(sq)]

\* find('a', containing=markers): the anchors, in document order, whose text
\* contains a marker (all anchors when the list of markers is empty).
find(d, containing) ==
    LET verdict == [i \in 1..Len(d.anchors) |-> AnyMarker(containing, d.anchors[i].text)]
    IN  IF containing = <<>> THEN [raised |-> "", elements |-> d.anchors]
        ELSE IF \E i \in 1..Len(d.anchors) : verdict[i] = "AttributeError"
        THEN [raised |-> "AttributeError", elements |-> <<>>]
        ELSE [raised |-> "",
              elements |-> SelectSeq2(d.anchors,
                                      { i \in 1..Len(d.anchors) : verdict[i] = "yes" })]

\* The tests of the loop body of find_next on one candidate.
HasHref(a) == a.href # NoAttr /\ a.href[1] # <<>>
RelNext(a) == \E i \in 1..Len(a.rel) : a.rel[i] = "next"
ClassNext(a) == \E i \in 1..Len(a.class) : a.class[i] \in NextWords
HrefPage(a) == \E i \in 1..Len(a.href[1]) : a.href[1][i] \in PageWords

Preferred(a) == HasHref(a) /\ (RelNext(a) \/ ClassNext(a) \/ HrefPage(a))

\* find_next: the href of the first candidate, in document order, that has
\* an href and passes one of the three tests; otherwise the href attribute
\* of the last candidate; None (NoAttr) without candidates.
find_next(candidates) ==
    LET pref == { i \in 1..Len(candidates) : Preferred(candidates[i]) }
    IN  IF pref # {} THEN candidates[Min(pref)].href
        ELSE IF candidates # <<>> THEN candidates[Len(candidates)].href
        ELSE NoAttr

\* What session.get returns: a response on HTMLSession, a future of one on
\* AsyncHTMLSession (the request runs in the thread pool).
Got(kind) == IF kind = "sync" THEN "Response" ELSE "Future"

\* HTML.next(fetch, next_symbol)
HtmlNext(d, fetch, arg) ==
    LET f == find(d, IF arg = <<>> THEN d.next_symbol ELSE arg)
        href == find_next(f.elements)
        nothing == [raised |-> "", kind |-> "None", url |-> <<>>, requests |-> <<>>]
    IN  IF f.raised # "" THEN [nothing EXCEPT !.raised = f.raised, !.kind = "raised"]
        ELSE IF href = NoAttr \/ href[1] = <<>> THEN nothing
        ELSE LET full_url == MakeAbsolute(d, href[1])
             IN  IF fetch
                 THEN [nothing EXCEPT !.kind = Got(d.session), !.url = full_url,
                                      !.requests = <<full_url>>]
                 ELSE [nothing EXCEPT !.kind = "url", !.url = full_url]

----------------------------------------------------------------------------
(* The documents and the site explored.                                     *)

MaxAnchors == 2      \* anchors of a document
MaxChain == 2        \* successor pages of a paginated chain
MaxMarkers == 2      \* elements of a Page's marker list
MaxYield == 3        \* pages taken from an asynchronous iteration

H(path) == <<"http", ":", "//", "h">> \o path
G(path) == <<"https", ":", "//", "g">> \o path

PageUrls == { H(<<"/", "a", "/", "b">>), H(<<>>), G(<<"/", "a", "/">>) }

\* The <base> elements of a page: none, without href, with an empty or blank
\* href, with a padded absolute href, with a relative href, and two elements.
BaseLists ==
    { <<>>, <<NoAttr>>, <<Attr(<<>>)>>, <<Attr(<<" ">>)>>,
      <<Attr(<<" ">> \o G(<<"/", "c", "/">>) \o <<" ">>)>>,
      <<Attr(<<"/", "c", "/">>)>>,
      <<Attr(<<>>), Attr(H(<<"/", "c", "/">>))>> }

Anchor(href, text, rel, class) ==
    [href |-> href, text |-> text, rel |-> rel, class |-> class]

\* Anchors that no marker matches.
PlainAnchors ==
    { Anchor(Attr(<<"b">>), <<"x">>, <<>>, <<>>),
      Anchor(Attr(<<" ", "/", "b", " ">>), <<"x">>, <<>>, <<>>),
      Anchor(Attr(<<"#", "top">>), <<"x">>, <<>>, <<>>),
      Anchor(Attr(<<"mailto", ":", "x">>), <<"x">>, <<>>, <<>>),
      Anchor(Attr(<<"javascript", ":", "x">>), <<"x">>, <<>>, <<>>),
      Anchor(Attr(<<" ">>), <<"x">>, <<>>, <<>>) }

\* Anchors whose text holds a marker.
NextAnchors ==
    { Anchor(NoAttr, <<"Next">>, <<"next">>, <<>>),
      Anchor(Attr(<<"//", "g", "/", "b">>), <<"Next">>, <<"nofollow", "next">>, <<>>),
      Anchor(Attr(G(<<"/", "b">>)), <<"More">>, <<>>, <<"btn-next">>),
      Anchor(Attr(<<"page2">>), <<"x", "next">>, <<>>, <<>>),
      Anchor(Attr(<<"c">>), <<"Next">>, <<>>, <<"btn">>),
      Anchor(Attr(<<"/", "b">>), <<"older">>, <<"nofollow">>, <<>>) }

AnchorSet == PlainAnchors \cup NextAnchors

AnchorLists == UNION { [1..n -> AnchorSet] : n \in 0..MaxAnchors }

\* A list of markers passed to next(), or assigned to page.next_symbol.
FlatMarkers == <<StrItem("next"), StrItem("more")>>

\* The paginated site: page i of the chain links to page i + 1 with a "Next"
\* anchor, the last page has no such anchor.
ChainNames == <<"p0", "p1", "p2", "p3", "p4">>
ChainUrl(i) == H(<<"/", "d", "/", ChainNames[i + 1]>>)

ChainDoc(i, n, kind) ==
    NewHTML(ChainUrl(i), <<>>,
            <<Anchor(Attr(<<"b">>), <<"x">>, <<>>, <<>>)>>
            \o (IF i < n
                THEN <<Anchor(Attr(<<ChainNames[i + 2]>>), <<"Next">>, <<>>, <<>>)>>
                ELSE <<>>),
            kind)

\* session.get(url).html: the page the site serves at url (a page without
\* anchors at any other URL).
Fetch(url, n, kind) ==
    IF \E i \in 0..n : url = ChainUrl(i)
    THEN ChainDoc(CHOOSE i \in 0..n : url = ChainUrl(i), n, kind)
    ELSE NewHTML(url, <<>>, <<>>, kind)

\* The documents a program starts from.
InitDocs ==
    { [chain |-> 0, doc |-> NewHTML(H(<<"/", "a", "/", "b">>), <<>>, as, "sync")] :
        as \in AnchorLists }
    \cup { [chain |-> 0, doc |-> NewHTML(u, bs, <<a>>, "sync")] :
            u \in PageUrls, bs \in BaseLists, a \in AnchorSet }
    \cup { [chain |-> n, doc |-> [ChainDoc(0, n, k) EXCEPT !.next_symbol = ns]] :
            n \in 0..MaxChain, k \in {"sync", "async"},
            ns \in {InitNextSymbol, FlatMarkers} }

\* Arguments of _make_absolute.
LinkArgs ==
    { <<"b">>, <<"/", "b">>, <<"//", "g", "/", "b">>, G(<<"/", "b">>),
      <<"mailto", ":", "x">>, <<"#", "top">> }

\* Arguments of add_next_symbol: a default marker and another one.
AddArgs == {"next", "x"}

\* Arguments next_symbol of next(): None, a list, a single string.
MarkerArgs == { <<>>, FlatMarkers, <<StrItem("older")>> }

----------------------------------------------------------------------------
(* Queries and pagination on one document.                                  *)
(*   doc       the HTML object the program holds (page P0)                  *)
(*   chain     the number of successor pages the site serves                *)
(*   requests  the URLs requested through the session by the call           *)
(*   yielded   what the iteration handed to the loop body so far            *)
(*   cur       the object the blocking iterator holds in next_page          *)
(*   assigned  whether the program has assigned page.next_symbol            *)

Item(kind, url) == [kind |-> kind, url |-> url]

DocIdle(d, n) ==
    [pc |-> "idle", op |-> "none", doc |-> d, chain |-> n, fetch |-> FALSE,
     arg |-> <<>>, raised |-> "", kind |-> "None", url |-> <<>>, set |-> {},
     requests |-> <<>>, yielded |-> <<>>, cur |-> Item("None", <<>>),
     assigned |-> FALSE]

InitDoc ==
    /\ sessions = <<NewSession("sync")>>
    /\ handles = <<>>
    /\ tabs = 0
    /\ pages = [p \in Pages |-> [session |-> 1, origin |-> 1, url |-> PageUrl(p),
                                 html |-> FetchedHtml, page |-> 0, browser |-> 0,
                                 encoding |-> "", lxml |-> "", pq |-> "",
                                 next_symbol |-> InitNextSymbol,
                                 skip_anchors |-> TRUE]]
    /\ calls = [t \in Callers |-> IdleCall]
    /\ concurrent = FALSE
    /\ run = RunIdle
    /\ nav \in { [DocIdle(i.doc, i.chain) EXCEPT
                    !.assigned = i.doc.next_symbol # InitNextSymbol] :
                 i \in InitDocs }
    /\ job = JobIdle
    /\ parser = ParserIdle

Idle == nav.pc = "idle"
Quiet ==
    UNCHANGED <<sessions, handles, tabs, pages, calls, concurrent, run, job, parser>>

\* page.skip_anchors = skip; page.links
LinksCall(skip) ==
    LET d == [nav.doc EXCEPT !.skip_anchors = skip]
    IN  /\ Idle
        /\ nav' = [nav EXCEPT !.pc = "done", !.op = "links", !.doc = d,
                              !.set = links(d)]
        /\ Quiet

\* page.absolute_links
AbsoluteLinksCall ==
    /\ Idle
    /\ nav' = [nav EXCEPT !.pc = "done", !.op = "absolute_links",
                          !.set = absolute_links(nav.doc)]
    /\ Quiet

\* page._make_absolute(link)
MakeAbsoluteCall(link) ==
    /\ Idle
    /\ nav' = [nav EXCEPT !.pc = "done", !.op = "_make_absolute", !.arg = link,
                          !.url = MakeAbsolute(nav.doc, link)]
    /\ Quiet

\* page.next(fetch, next_symbol)
NextCall(fetch, arg) ==
    LET r == HtmlNext(nav.doc, fetch, arg)
    IN  /\ Idle
        /\ nav' = [nav EXCEPT !.pc = "done", !.op = "next", !.fetch = fetch,
                              !.arg = arg, !.raised = r.raised, !.kind = r.kind,
                              !.url = r.url, !.requests = r.requests]
        /\ Quiet

\* HTML.add_next_symbol: `if next_symbol not in self.next_symbol:
\* self.next_symbol.append(next_symbol)`; a string is equal to no list.
add_next_symbol(ns, item) ==
    IF \E i \in 1..Len(ns) : ns[i] = item THEN ns ELSE Append(ns, item)

\* page.add_next_symbol(m)
AddNextSymbolCall(m) ==
    /\ Idle
    /\ Len(add_next_symbol(nav.doc.next_symbol, StrItem(m))) <= MaxMarkers
    /\ nav' = [nav EXCEPT !.pc = "done", !.op = "add_next_symbol",
                          !.arg = <<StrItem(m)>>,
                          !.doc.next_symbol = add_next_symbol(@, StrItem(m))]
    /\ Quiet

\* `for p in page`: the generator of __iter__ runs to its first yield.
IterStart ==
    /\ Idle
    /\ nav' = [nav EXCEPT !.pc = "iter", !.op = "iter",
                          !.cur = Item("Page", nav.doc.url),
                          !.yielded = <<Item("Page", nav.doc.url)>>]
    /\ Quiet

\* The loop body asks for the next item: the generator resumes after its
\* yield, calls next_page.next(fetch=True, next_symbol=self.next_symbol) and
\* tests the result.  On a Page that is HTML.next; on a response it is the
\* attribute requests.Response.next (None: no redirect is pending), and
\* calling it raises TypeError; a future has no such attribute.  A response
\* is true when its status is not an error.
IterStep ==
    LET r == HtmlNext(IF nav.cur.url = nav.doc.url THEN nav.doc
                      ELSE Fetch(nav.cur.url, nav.chain, nav.doc.session),
                      TRUE, nav.doc.next_symbol)
    IN  /\ nav.pc = "iter"
        /\ nav' =
             CASE nav.cur.kind = "Response" ->
                    [nav EXCEPT !.pc = "done", !.raised = "TypeError"]
               [] nav.cur.kind = "Future" ->
                    [nav EXCEPT !.pc = "done", !.raised = "AttributeError"]
               [] OTHER ->
                    IF r.raised # ""
                    THEN [nav EXCEPT !.pc = "done", !.raised = r.raised]
                    ELSE IF r.kind = "None"
                    THEN [nav EXCEPT !.pc = "done", !.raised = "StopIteration"]
                    ELSE [nav EXCEPT !.cur = Item(r.kind, r.url),
                                     !.yielded = Append(@, Item(r.kind, r.url)),
                                     !.requests = @ \o r.requests]
        /\ Quiet

\* `async for p in page`: __aiter__ returns the page itself and every
\* iteration awaits page.__anext__(), which asks this page for its next URL,
\* requests it and returns the html of the response.  Awaiting the response
\* of a synchronous session raises TypeError.
AnextStep ==
    LET r == HtmlNext(nav.doc, FALSE, nav.doc.next_symbol)
    IN  /\ nav.pc = "idle" \/ (nav.pc = "aiter" /\ Len(nav.yielded) < MaxYield)
        /\ nav' =
             IF r.raised # ""
             THEN [nav EXCEPT !.pc = "done", !.op = "aiter", !.raised = r.raised]
             ELSE IF r.kind = "None"
             THEN [nav EXCEPT !.pc = "done", !.op = "aiter",
                              !.raised = "StopAsyncIteration"]
             ELSE IF nav.doc.session = "sync"
             THEN [nav EXCEPT !.pc = "done", !.op = "aiter", !.raised = "TypeError",
                              !.requests = Append(@, r.url)]
             ELSE [nav EXCEPT !.pc = "aiter", !.op = "aiter",
                              !.requests = Append(@, r.url),
                              !.yielded = Append(@, Item("Page", r.url))]
        /\ Quiet

\* The call is over (the program leaves the loop); the document stays.
NavOver ==
    /\ nav.pc \in {"done", "aiter"}
    /\ nav' = [DocIdle(nav.doc, nav.chain) EXCEPT !.assigned = nav.assigned]
    /\ Quiet

NextDoc ==
    \/ \E skip \in BOOLEAN : LinksCall(skip)
    \/ AbsoluteLinksCall
    \/ \E link \in LinkArgs : MakeAbsoluteCall(link)
    \/ \E fetch \in BOOLEAN, arg \in MarkerArgs : NextCall(fetch, arg)
    \/ \E m \in AddArgs : AddNextSymbolCall(m)
    \/ IterStart
    \/ IterStep
    \/ AnextStep
    \/ NavOver

\* A program that queries and paginates a document.
SpecDoc == InitDoc /\ [][NextDoc]_vars

----------------------------------------------------------------------------
(* One render call followed browser operation by operation: the cookies,    *)
(* the navigation, the script, the scroll phase and the tab of each         *)
(* attempt.  The browser of the session is running.                         *)

MaxScroll == 2       \* largest `scrolldown` argument tried

\* A Python None among attribute values.
NoneValue == "None"

\* The attributes every http.cookiejar.Cookie object has (those the
\* conversion can ask for, and one it never asks for).
CookieAttrs == {"version", "name", "value", "domain", "path", "secure", "expires"}

\* keys = ['name', 'value', 'url', 'domain', 'path', 'sameSite', 'expires',
\*         'httpOnly', 'secure']
RenderKeys ==
    {"name", "value", "url", "domain", "path", "sameSite", "expires", "httpOnly",
     "secure"}

\* A cookie of the session's store: a session cookie has expires None.
StoredCookie(name, expires, secure) ==
    [a \in CookieAttrs |->
        CASE a = "version" -> "0"
          [] a = "name" -> name
          [] a = "value" -> "v"
          [] a = "domain" -> "site"
          [] a = "path" -> "/"
          [] a = "secure" -> secure
          [] OTHER -> expires]

\* getattr(session_cookiejar, key, None)
GetAttr(ck, key) == IF key \in DOMAIN ck THEN ck[key] ELSE NoneValue

\* _convert_cookiejar_to_render: the keys whose attribute is not None.
ConvertCookiejarToRender(ck) ==
    [k \in { x \in RenderKeys : GetAttr(ck, x) # NoneValue } |-> GetAttr(ck, k)]

\* _convert_cookiesjar_to_render: one dict per cookie of self.session.cookies
\* (a requests session keeps a CookieJar), in the order of iteration.
ConvertCookiesjarToRender(jar) ==
    [i \in 1..Len(jar) |-> ConvertCookiejarToRender(jar[i])]

\* The dict {} and the default argument cookies = [{}].
EmptyDict == [k \in {} |-> ""]
DefaultCookies == <<EmptyDict>>

\* render with `if send_cookies_session` never taken.
RenderCookies_CallerList(send, arg, jar) == arg

\* `if send_cookies_session: cookies = self._convert_cookiesjar_to_render()`
RenderCookies(send, arg, jar) ==
    IF send THEN ConvertCookiesjarToRender(jar) ELSE arg

\* render without its test of the URL.
RenderReload_AsPassed(url, reload) == reload

\* `if self.url == DEFAULT_URL: reload = False`
RenderReload(url, reload) == IF url = DEFAULT_URL THEN FALSE ELSE reload

\* One call on the browser or on the tab, or one pause.
\*   newPage, setCookie (cookie), goto (target; data: document or URL),
\*   evaluate, keydown, keyup, content, close, and sleep (target "wait" or
\*   "sleep": which argument gives its length).
Op(name) == [op |-> name, cookie |-> EmptyDict, target |-> "", data |-> FALSE]
CookieOp(ck) == [Op("setCookie") EXCEPT !.cookie = ck]
Pause(which) == [Op("sleep") EXCEPT !.target = which]
Goto(target, data) == [Op("goto") EXCEPT !.target = target, !.data = data]

\* `for _ in range(scrolldown)`: keyboard.down('PageDown'), then the pause.
ScrollOps(n) ==
    [i \in 1..(2 * n) |-> IF i % 2 = 1 THEN Op("keydown") ELSE Pause("sleep")]

\* The try block with the cookies installed after the navigation.
TryBlock_CookiesAfterGoto(j) ==
    <<Op("newPage"), Pause("wait")>>
    \o <<IF j.reload THEN Goto(j.url, FALSE) ELSE Goto(j.html, TRUE)>>
    \o [i \in 1..Len(j.cookies) |-> CookieOp(j.cookies[i])]
    \o (IF j.script THEN <<Op("evaluate")>> ELSE <<>>)
    \o (IF j.scrolldown > 0
        THEN ScrollOps(j.scrolldown) \o <<Op("keyup")>>
        ELSE <<Pause("sleep")>>)
    \o <<Op("content")>>
    \o (IF j.keep THEN <<>> ELSE <<Op("close")>>)

\* The calls of the try block of _async_render in the order the code makes
\* them when none of them raises.
TryBlock(j) ==
    <<Op("newPage"), Pause("wait")>>
    \o [i \in 1..Len(j.cookies) |-> CookieOp(j.cookies[i])]
    \o <<IF j.reload THEN Goto(j.url, FALSE) ELSE Goto(j.html, TRUE)>>
    \o (IF j.script THEN <<Op("evaluate")>> ELSE <<>>)
    \o (IF j.scrolldown > 0
        THEN ScrollOps(j.scrolldown) \o <<Op("keyup")>>
        ELSE <<Pause("sleep")>>)
    \o <<Op("content")>>
    \o (IF j.keep THEN <<>> ELSE <<Op("close")>>)

\* The calls that can raise, and how: with the TimeoutError the module
\* imports, or with another exception.
FaultOps == {"newPage", "setCookie", "goto", "content"}
FaultKinds == {"timeout", "exc"}
NoFault == [at |-> "none", kind |-> "none"]
Faults == {NoFault} \cup [at : FaultOps, kind : FaultKinds]

\* _async_render(...) of job j when the first call named by fault f raises
\* and page.content() otherwise returns `out`.
\*   ops      the calls made, the raising one and the handler's included
\*   raised   what leaves the coroutine ("none": it returns)
\*   error    the exception class when raised is "exc"
\*   kept     whether the tab is returned to the caller
\*   opened   whether newPage returned a tab; open: whether it is still open
\* except TimeoutError: `if page: await page.close()`, then the error is
\* re-raised.  When newPage itself raised, `page` was never bound and the
\* test raises UnboundLocalError out of the handler.
AsyncRenderOps(j, f, out) ==
    LET full == TryBlock(j)
        hits == { k \in 1..Len(full) : full[k].op = f.at }
        k == IF hits = {} THEN 0 ELSE Min(hits)
        opened == k # 1
    IN  IF k = 0
        THEN [ops |-> full, raised |-> "none", error |-> "", content |-> out,
              kept |-> j.keep, opened |-> TRUE, open |-> j.keep, fault |-> NoFault]
        ELSE IF f.kind = "timeout"
        THEN IF opened
             THEN [ops |-> SubSeq(full, 1, k) \o <<Op("close")>>,
                   raised |-> "TimeoutError", error |-> "", content |-> "",
                   kept |-> FALSE, opened |-> TRUE, open |-> FALSE, fault |-> f]
             ELSE [ops |-> SubSeq(full, 1, k), raised |-> "exc",
                   error |-> "UnboundLocalError", content |-> "",
                   kept |-> FALSE, opened |-> FALSE, open |-> FALSE, fault |-> f]
        ELSE [ops |-> SubSeq(full, 1, k), raised |-> "exc", error |-> "Exception",
              content |-> "", kept |-> FALSE, opened |-> opened, open |-> opened,
              fault |-> f]

\* What page.content() returns in this exploration.
JobOuts == {"", "r1"}

\* The stores a session's cookie jar can hold.
SessionCookie == StoredCookie("sid", NoneValue, "False")
PersistentCookie == StoredCookie("uid", "2030", "True")
Jars == {<<>>, <<SessionCookie>>, <<PersistentCookie, SessionCookie>>}

\* The cookie lists a caller passes.
CallerCookie == [k \in {"name", "value", "url"} |->
                    CASE k = "name" -> "k" [] k = "value" -> "w" [] OTHER -> FetchedUrl]
CookieArgs == {DefaultCookies, <<CallerCookie>>}

\* The Page of the call and the cookie store of its session.
\*   pg      the Page (as in `pages`);  jar: the store of session pg.session
\*   c       the call (as in `calls`)
\*   args    the arguments of the call, and the session's store and the
\*           Page's content, session, URL and settings when the call was made
\*   cookies, reload: the locals of render
\*   log     what each attempt did
NoArgs ==
    [reload |-> FALSE, send |-> FALSE, cookies |-> <<>>, script |-> FALSE,
     scrolldown |-> 0, store |-> <<>>, html |-> "", session |-> 0, url |-> "",
     next_symbol |-> <<>>, skip_anchors |-> TRUE]

\* The Page after `page.skip_anchors = False; page.add_next_symbol('x')`.
Configured(pg) ==
    [pg EXCEPT !.skip_anchors = FALSE,
               !.next_symbol = add_next_symbol(@, StrItem("x"))]

JobStart(url, jar) ==
    [pc |-> "idle",
     pg |-> [session |-> 1, origin |-> 1, url |-> url, html |-> FetchedHtml,
             page |-> 0, browser |-> 1, encoding |-> "", lxml |-> "", pq |-> "",
             next_symbol |-> InitNextSymbol, skip_anchors |-> TRUE],
     jar |-> jar, c |-> IdleCall, args |-> NoArgs, cookies |-> <<>>,
     reload |-> FALSE, log |-> <<>>]

InitJob ==
    /\ sessions = <<NewSession("sync")>>
    /\ handles = <<>>
    /\ tabs = 0
    /\ pages = [p \in Pages |-> [session |-> 1, origin |-> 1, url |-> PageUrl(p),
                                 html |-> FetchedHtml, page |-> 0, browser |-> 0,
                                 encoding |-> "", lxml |-> "", pq |-> "",
                                 next_symbol |-> InitNextSymbol,
                                 skip_anchors |-> TRUE]]
    /\ calls = [t \in Callers |-> IdleCall]
    /\ concurrent = FALSE
    /\ run = RunIdle
    /\ nav = NavIdle
    /\ job \in { [JobStart(url, jar) EXCEPT !.pg = IF set THEN Configured(@) ELSE @] :
                    url \in {DEFAULT_URL, FetchedUrl}, jar \in Jars,
                    set \in BOOLEAN }
    /\ parser = ParserIdle

\* The steps on `job` touch nothing else.
JobOnly ==
    UNCHANGED <<sessions, handles, tabs, pages, calls, concurrent, run, nav, parser>>

\* The end of a step of the call: when the loop has ended, the code after it
\* (which on success gives the Page a newly constructed session, whose cookie
\* store is empty).
JobSettle(j) ==
    IF LoopEnded(j.c)
    THEN LET fin == AfterLoop(j.c, j.pg, j.pg.session + 1)
         IN  [j EXCEPT !.pc = "done", !.c = fin.c, !.pg = fin.page,
                       !.jar = IF fin.created THEN <<>> ELSE @]
    ELSE j

\* page.render(retries=R, script=..., scrolldown=n, reload=reload,
\* keep_page=keep, cookies=arg, send_cookies_session=send), to the loop.
JobRender(R, script, n, reload, keep, arg, send) ==
    LET pg == job.pg
        c0 == [IdleCall EXCEPT !.op = "render", !.pc = "loop", !.sess = pg.session,
                               !.page = 1, !.retries = R, !.keep = keep,
                               !.handle = pg.browser, !.entered = TRUE]
        j0 == [job EXCEPT !.c = c0, !.log = <<>>,
                          !.args = [reload |-> reload, send |-> send,
                                    cookies |-> arg, script |-> script,
                                    scrolldown |-> n, store |-> job.jar,
                                    html |-> pg.html, session |-> pg.session,
                                    url |-> pg.url,
                                    next_symbol |-> pg.next_symbol,
                                    skip_anchors |-> pg.skip_anchors],
                          !.reload = RenderReload(pg.url, reload),
                          !.cookies = RenderCookies(send, arg, job.jar)]
    IN  /\ job.pc = "idle"
        /\ job' = JobSettle([j0 EXCEPT !.pc = "loop"])
        /\ JobOnly

\* The arguments _async_render receives in the next attempt: the Render Job.
RenderJob(j) ==
    [url |-> j.pg.url, html |-> j.pg.html, script |-> j.args.script,
     scrolldown |-> j.args.scrolldown, reload |-> j.reload, keep |-> j.c.keep,
     cookies |-> j.cookies]

\* One iteration of the loop: the attempt, in which the first call named by
\* f raises, and the handlers.  The tab of attempt i is tab i of the call.
JobAttempt(f, out) ==
    LET r == AsyncRenderOps(RenderJob(job), f, out)
        i == job.c.attempts + 1
        o == CASE r.raised = "TimeoutError" -> "timeout"
               [] r.raised = "exc" -> "exc"
               [] r.content = "" -> "empty"
               [] OTHER -> r.content
        c1 == RetryBody([job.c EXCEPT !.plan = Append(@, o)],
                        [raised |-> r.raised, content |-> r.content,
                         page |-> IF r.kept THEN i ELSE 0])
    IN  /\ job.pc = "loop"
        /\ job' = JobSettle([job EXCEPT !.c = c1, !.log = Append(@, r)])
        /\ job'.pg.session <= MaxSessions
        /\ JobOnly

\* A response received through the Page's session changes its cookie store
\* (at any time, also between two attempts of a call).
JobCookies(jar) ==
    /\ job.jar # jar
    /\ job' = [job EXCEPT !.jar = jar]
    /\ JobOnly

\* The call has returned or raised; the Page and the stores stay.
JobOver ==
    /\ job.pc = "done"
    /\ job' = [job EXCEPT !.pc = "idle", !.c = IdleCall, !.args = NoArgs,
                          !.cookies = <<>>, !.reload = FALSE, !.log = <<>>]
    /\ JobOnly

NextJob ==
    \/ \E R \in 0..MaxRetriesArg, script \in BOOLEAN, n \in 0..MaxScroll,
          reload \in BOOLEAN, keep \in BOOLEAN, arg \in CookieArgs,
          send \in BOOLEAN :
          JobRender(R, script, n, reload, keep, arg, send)
    \/ \E f \in Faults, out \in JobOuts : JobAttempt(f, out)
    \/ \E jar \in Jars : JobCookies(jar)
    \/ JobOver

\* A program that renders one Page of a session whose browser is running.
SpecJob == InitJob /\ [][NextJob]_vars

----------------------------------------------------------------------------
(* The content and the encoding of one document (BaseParser): an Element a  *)
(* query returned, which has no bytes of its own, or an HTML object.        *)

\* Encodings a document declares in its bytes (BOM, <meta charset>), "" for
\* none; fallback encodings of documents; encodings the program sets.
Declared == {"", "cp1252", "utf-16"}
Defaults == {"utf-8", "cp1252"}
SetEncodings == {"ascii"}

\* The bytes of a document: None or empty (present false), or content that
\* declares an encoding or none.
NoBytes == [present |-> FALSE, declared |-> ""]
Bytes(d) == [present |-> TRUE, declared |-> d]
Bodies == {NoBytes} \cup { Bytes(d) : d \in Declared }

\* w3lib's html_to_unicode(self.default_encoding, self._html): the first
\* argument stands for a Content-Type header and names no charset, so the
\* result is the encoding the bytes declare, else w3lib's default.
html_to_unicode(default, body) ==
    IF body.declared # "" THEN body.declared ELSE "utf-8"

\* BaseParser.encoding (getter): the cached _encoding; else, with bytes, the
\* detected encoding, which is cached (decoding with errors='replace' does
\* not raise); else the default, which is not cached.
Encoding(d) ==
    IF d.encoding # ""
    THEN [d |-> d, value |-> d.encoding]
    ELSE IF d.html.present
    THEN LET e == html_to_unicode(d.default_encoding, d.html)
         IN  [d |-> [d EXCEPT !.encoding = e], value |-> e]
    ELSE [d |-> d, value |-> d.default_encoding]

\* BaseParser.__init__: _encoding None; `first` and `last` are the values of
\* the first and of the latest read of encoding by the program since the
\* setter was last called ("": not read).
NewParser(body, default) ==
    [op |-> "new", html |-> body, encoding |-> "", default_encoding |-> default,
     first |-> "", last |-> ""]

InitParser ==
    /\ sessions = <<NewSession("sync")>>
    /\ handles = <<>>
    /\ tabs = 0
    /\ pages = [p \in Pages |-> [session |-> 1, origin |-> 1, url |-> PageUrl(p),
                                 html |-> FetchedHtml, page |-> 0, browser |-> 0,
                                 encoding |-> "", lxml |-> "", pq |-> "",
                                 next_symbol |-> InitNextSymbol,
                                 skip_anchors |-> TRUE]]
    /\ calls = [t \in Callers |-> IdleCall]
    /\ concurrent = FALSE
    /\ run = RunIdle
    /\ nav = NavIdle
    /\ job = JobIdle
    /\ parser \in { NewParser(b, e) : b \in Bodies, e \in Defaults }

\* The steps on `parser` touch nothing else.
ParserOnly ==
    UNCHANGED <<sessions, handles, tabs, pages, calls, concurrent, run, nav, job>>

\* x = doc.encoding
EncodingRead ==
    LET r == Encoding(parser)
    IN  /\ parser' = [r.d EXCEPT !.op = "encoding",
                                 !.first = IF @ = "" THEN r.value ELSE @,
                                 !.last = r.value]
        /\ ParserOnly

\* doc.encoding = enc
EncodingSet(enc) ==
    /\ parser' = [parser EXCEPT !.op = "encoding=", !.encoding = enc,
                                !.first = "", !.last = ""]
    /\ ParserOnly

\* x = doc.html: with bytes, they are decoded with self.encoding; without,
\* the element is serialized.
HtmlRead ==
    /\ parser' = [(IF parser.html.present THEN Encoding(parser).d ELSE parser)
                    EXCEPT !.op = "html"]
    /\ ParserOnly

\* x = doc.raw_html: the bytes; without bytes the element is serialized and
\* encoded with self.encoding.
RawHtmlRead ==
    /\ parser' = [(IF parser.html.present THEN parser ELSE Encoding(parser).d)
                    EXCEPT !.op = "raw_html"]
    /\ ParserOnly

\* doc.html = text: self._html = text.encode(self.encoding)
HtmlWrite(body) ==
    /\ parser' = [Encoding(parser).d EXCEPT !.op = "html=", !.html = body]
    /\ ParserOnly

\* doc.raw_html = bytes
RawHtmlWrite(body) ==
    /\ parser' = [parser EXCEPT !.op = "raw_html=", !.html = body]
    /\ ParserOnly

NextParser ==
    \/ EncodingRead
    \/ \E enc \in SetEncodings : EncodingSet(enc)
    \/ HtmlRead
    \/ RawHtmlRead
    \/ \E body \in Bodies : HtmlWrite(body)
    \/ \E body \in Bodies : RawHtmlWrite(body)

\* A program that reads and writes the content and the encoding of a document.
SpecParser == InitParser /\ [][NextParser]_vars

----------------------------------------------------------------------------
(* Properties *)


Finished(t) == calls[t].pc = "done"

\* A finished render/arender call that reached its retry loop.
RenderDone(t) == Finished(t) /\ calls[t].op \in RenderOps /\ calls[t].entered

\* The part of a Page the caller reads as its document: content, URL and the
\* kept tab.
Doc(pg) == [html |-> pg.html, url |-> pg.url, page |-> pg.page]

\* C1: whenever the browser fails attempts 1..k-1 without timing out
\* (exception or empty HTML) and yields non-empty HTML in attempt k <= retries,
\* the call makes exactly k attempts, succeeds, and the Page's content is the
\* HTML of attempt k.  (Calls of plain code on a running browser.)
C1_SucceedsAtAttemptK ==
    \A t \in Callers :
        LET c == calls[t]
        IN  (RenderDone(t) /\ ~c.inLoop /\ HandleLive(c.handle)) =>
                \A k \in 1..Len(c.plan) :
                    ( /\ k <= c.retries
                      /\ c.plan[k] \in Htmls
                      /\ \A j \in 1..(k - 1) : c.plan[j] \in Fails )
                    => ( /\ c.status = "ok"
                         /\ c.attempts = k
                         /\ pages[c.page].html = c.plan[k] )

\* C2: an attempt that timed out ended the call at once with the timeout
\* error: it is the last attempt made, whatever budget remains, and the call's
\* outcome is TimeoutError (not MaxRetries, not another error).
C2_TimeoutAbortsCall ==
    \A t \in Callers :
        LET c == calls[t]
        IN  c.op \in RenderOps =>
                \A i \in 1..c.attempts :
                    c.plan[i] = "timeout" =>
                        /\ c.pc = "done"
                        /\ c.status = "TimeoutError"
                        /\ c.attempts = i

\* C2 witness: a call ended by a timeout while retry budget remained.
C2_Witness ==
    \E t \in Callers :
        /\ RenderDone(t)
        /\ calls[t].status = "TimeoutError"
        /\ calls[t].attempts < calls[t].retries

\* C3: a non-timeout exception raised in an attempt does not leave
\* render/arender: the attempt is counted, and while budget remains the call
\* goes on to its next attempt.
C3_ExceptionIsRetried ==
    \A t \in Callers :
        LET c == calls[t]
        IN  c.op \in RenderOps =>
                \A i \in 1..c.attempts :
                    c.plan[i] = "exc" =>
                        /\ c.status \in {"none", "ok", "MaxRetries", "TimeoutError"}
                        /\ (c.pc = "done" /\ i < c.retries) => c.attempts > i

\* C4: a call none of whose attempts yields non-empty HTML or times out makes
\* exactly `retries` attempts and fails with MaxRetries, and MaxRetries is the
\* outcome of no other call.
C4_MaxRetriesAfterAllAttempts ==
    \A t \in Callers :
        LET c == calls[t]
            allFail == \A i \in 1..c.attempts : c.plan[i] \in Fails
        IN  RenderDone(t) =>
                /\ (allFail /\ c.content = "") =>
                        (c.attempts = c.retries /\ c.status = "MaxRetries")
                /\ c.status = "MaxRetries" =>
                        (allFail /\ c.attempts = c.retries)

\* C5: every step of a render/arender call other than its successful
\* completion leaves the Page's content, URL and kept tab as they were; so a
\* call that ends in TimeoutError or MaxRetries leaves them as before the call.
C5_FailedRenderLeavesPage ==
    [][ \A t \in Callers :
            ( /\ calls'[t] # calls[t]
              /\ calls'[t].op \in RenderOps
              /\ calls'[t].status # "ok" )
            => Doc(pages'[calls'[t].page]) = Doc(pages[calls'[t].page]) ]_vars

\* C5 witness: a call failed with MaxRetries after attempts that left a tab
\* open (keep_page), and the Page does not refer to that tab.
C5_Witness ==
    \E t \in Callers :
        /\ RenderDone(t)
        /\ calls[t].status = "MaxRetries"
        /\ calls[t].keep
        /\ calls[t].tab # 0
        /\ pages[calls[t].page].page # calls[t].tab

\* The browser processes launched for session s and not closed.
LiveHandles(s) ==
    { h \in 1..Len(handles) : handles[h].owner = s /\ handles[h].closes = 0 }

\* C6: at most one launched and not-yet-closed browser handle per session.
C6_OneLiveHandlePerSession ==
    \A s \in 1..Len(sessions) : Cardinality(LiveHandles(s)) <= 1

\* C7: every render call on a Page uses the browser handle of the session
\* that fetched the Page, so that all render calls made through one session
\* share one handle.
C7_RendersShareOneBrowser ==
    \A t \in Callers :
        RenderDone(t) =>
            calls[t].handle = sessions[pages[calls[t].page].origin].browser

\* C8: close() on either session variant completes without error, with the
\* browser handle closed if there was one and the transport released.
C8_CloseCompletes ==
    \A t \in Callers :
        LET c == calls[t]
        IN  (Finished(t) /\ c.op \in {"close", "aclose"}) =>
                /\ c.status = "ok"
                /\ sessions[c.sess].released
                /\ c.handle # 0 => handles[c.handle].closes >= 1

\* C9: no browser handle has its close operation invoked more than once, and
\* a session's close leaves the handle it holds closed exactly once.
C9_HandleClosedOnce ==
    /\ \A h \in 1..Len(handles) : handles[h].closes <= 1
    /\ \A t \in Callers :
          (Finished(t) /\ calls[t].op \in {"close", "aclose"} /\ calls[t].handle # 0)
          => handles[calls[t].handle].closes = 1

\* C10 as stated: every access to HTMLSession.browser made while the event
\* loop is running raises RuntimeError and leaves the session without a
\* browser.
C10_LoopAccessAlwaysRaises ==
    \A t \in Callers :
        LET c == calls[t]
        IN  (Finished(t) /\ c.op = "browser" /\ c.inLoop) =>
                /\ c.status = "RuntimeError"
                /\ sessions[c.sess].browser = 0

\* C10: an access to HTMLSession.browser made while the event loop is running,
\* on a session that has no browser, raises RuntimeError in that step, launches
\* no browser and leaves the session without one.
C10_LoopAccessWithoutBrowserRaises ==
    [][ \A t \in Callers :
            ( /\ calls[t].pc = "idle"
              /\ calls'[t].op = "browser"
              /\ calls'[t].inLoop
              /\ sessions[calls'[t].sess].browser = 0 )
            => /\ calls'[t].pc = "done"
               /\ calls'[t].status = "RuntimeError"
               /\ handles' = handles
               /\ sessions'[calls'[t].sess].browser = 0 ]_vars

\* C10 witness: an access from the running loop was refused on a session
\* without a browser.
C10_Witness ==
    \E t \in Callers :
        /\ Finished(t)
        /\ calls[t].op = "browser"
        /\ calls[t].inLoop
        /\ calls[t].status = "RuntimeError"
        /\ sessions[calls[t].sess].browser = 0

\* How many times value v occurs in the list f.
Count(f, v) == Cardinality({ i \in 1..Len(f) : f[i] = v })

C12_ResultsInSubmissionOrder ==
    run.pc = "returned" => Returned(run) = run.res

\* C13: the list run returns holds the results in completion order: element i
\* is the result of the i-th task to settle.
C13_ResultsInCompletionOrder ==
    run.pc = "returned" =>
        Returned(run) = [i \in 1..Len(run.settled) |-> run.res[run.settled[i]]]

\* A finished call of operation op on the document.
NavDone(op) == nav.pc = "done" /\ nav.op = op

\* The markers a next() call works with, and its candidates.
MarkersUsed == IF nav.arg = <<>> THEN nav.doc.next_symbol ELSE nav.arg
Candidates == find(nav.doc, MarkersUsed).elements

\* The rank of a candidate: 1 rel, 2 class, 3 href, 4 none of them.
Rank(a) ==
    IF ~HasHref(a) THEN 4
    ELSE IF RelNext(a) THEN 1
    ELSE IF ClassNext(a) THEN 2
    ELSE IF HrefPage(a) THEN 3
    ELSE 4

\* What next(fetch=False) returns for the href attribute h.
Resolved(h) ==
    IF h = NoAttr \/ h[1] = <<>> THEN [kind |-> "None", url |-> <<>>]
    ELSE [kind |-> "url", url |-> MakeAbsolute(nav.doc, h[1])]

\* C14: next() selects among the candidates by strict priority: a candidate
\* with rel 'next' before one with a 'next' class before one with 'page' in
\* its href, and the last candidate if none has any of these, wherever the
\* candidates stand in the document.
C14_StrictPrioritySelection ==
    (NavDone("next") /\ nav.raised = "" /\ ~nav.fetch /\ Candidates # <<>>) =>
        LET c == Candidates
            best == Min({ Rank(c[i]) : i \in 1..Len(c) })
            got == [kind |-> nav.kind, url |-> nav.url]
        IN  IF best < 4
            THEN \E i \in 1..Len(c) : Rank(c[i]) = best /\ got = Resolved(c[i].href)
            ELSE got = Resolved(c[Len(c)].href)

\* C15: next(fetch, markers) returns None without a request when no anchor
\* matches a marker; with fetch false it returns the chosen link resolved to an
\* absolute URL, without a request; with fetch true it issues exactly one
\* request, to that URL, and returns the resulting Page.
C15_NextReturnsUrlOrPage ==
    (NavDone("next") /\ nav.raised = "") =>
        LET chosen == find_next(Candidates)
        IN  /\ Candidates = <<>> => (nav.kind = "None" /\ nav.requests = <<>>)
            /\ (chosen # NoAttr /\ chosen[1] # <<>>) =>
                  IF nav.fetch
                  THEN /\ nav.requests = <<MakeAbsolute(nav.doc, chosen[1])>>
                       /\ nav.kind = "Page"
                  ELSE /\ nav.requests = <<>>
                       /\ nav.kind = "url"
                       /\ nav.url = MakeAbsolute(nav.doc, chosen[1])

\* The document is page P0 of the chain, on a session of the given kind, with
\* a flat list of markers assigned to page.next_symbol.
ChainHead(kind) ==
    nav.doc = [ChainDoc(0, nav.chain, kind) EXCEPT !.next_symbol = FlatMarkers]

\* C16: the blocking iterator over the chain P0 -> ... -> Pn yields the Pages
\* P0, ..., Pn in order, has issued one request per page after P0 (the request
\* for a page only after the previous page was yielded), and ends after Pn.
C16_BlockingIterationYieldsChain ==
    (nav.op = "iter" /\ ChainHead("sync")) =>
        /\ \A i \in 1..Len(nav.yielded) : nav.yielded[i] = Item("Page", ChainUrl(i - 1))
        /\ nav.requests = [i \in 1..(Len(nav.yielded) - 1) |-> ChainUrl(i)]
        /\ nav.pc = "done" =>
              (nav.raised = "StopIteration" /\ Len(nav.yielded) = nav.chain + 1)

\* C17: the asynchronous iterator over the chain P0 -> ... -> Pn yields the
\* Pages P1, ..., Pn in order, each once, and then raises StopAsyncIteration.
C17_AsyncIterationVisitsChain ==
    (nav.op = "aiter" /\ ChainHead("async")) =>
        /\ Len(nav.yielded) <= nav.chain
        /\ \A i \in 1..Len(nav.yielded) : nav.yielded[i] = Item("Page", ChainUrl(i))
        /\ nav.pc = "done" =>
              (nav.raised = "StopAsyncIteration" /\ Len(nav.yielded) = nav.chain)

\* C18: when render/arender has succeeded, the Page (the same object, with
\* its URL) holds the rendered HTML and none of its caches (encoding, parsed
\* tree, query handle); and every find answers from the content the Page
\* holds at that moment, never from content it held before a render.
C18_RenderReplacesDocument ==
    \A t \in Callers :
        LET c == calls[t]
        IN  /\ (RenderDone(t) /\ c.status = "ok") =>
                  /\ pages[c.page].html = c.content
                  /\ pages[c.page].url = PageUrl(c.page)
                  /\ pages[c.page].encoding = ""
                  /\ pages[c.page].lxml = ""
                  /\ pages[c.page].pq = ""
            /\ (Finished(t) /\ c.op = "find") =>
                  /\ c.content = pages[c.page].html
                  /\ pages[c.page].encoding = pages[c.page].html

\* C18 witness: a render succeeded on a Page whose caches had been filled by
\* an earlier query.
C18_Witness ==
    \E t \in Callers :
        /\ RenderDone(t)
        /\ calls[t].status = "ok"
        /\ calls[t].warm
        /\ pages[calls[t].page].html \in Htmls

C20_LinksFilter ==
    NavDone("links") =>
        nav.set =
          { Strip(GetOrEmpty(nav.doc.anchors[i].href)) :
              i \in { j \in 1..Len(nav.doc.anchors) :
                        LET h == Strip(GetOrEmpty(nav.doc.anchors[j].href))
                        IN  /\ h # <<>>
                            /\ ~StartsWith(h, <<"javascript", ":">>)
                            /\ ~StartsWith(h, <<"mailto", ":">>)
                            /\ StartsWith(h, <<"#">>) => ~nav.doc.skip_anchors } }

\* The render call followed operation by operation, while it runs and when
\* it has ended.
JobCalled == job.pc \in {"loop", "done"}

\* The cookies an attempt installed on its tab, in order.
Installed(r) ==
    LET sets == SelectSeq(r.ops, LAMBDA o : o.op = "setCookie")
    IN  [i \in 1..Len(sets) |-> sets[i].cookie]

\* The attempt got as far as navigating.
Navigated(r) == \E k \in 1..Len(r.ops) : r.ops[k].op = "goto"

\* C21: in every attempt of a render call that reaches its navigation, the
\* cookies installed on the tab are, with send_cookies_session set, one record
\* per cookie of the session's store as it was when the call was made, holding
\* exactly the render keys whose attribute the cookie defines (is not None),
\* with the cookie's values, whatever list the caller passed; and without it,
\* exactly the caller's list.
C21_CookiesInstalled ==
    JobCalled =>
        \A a \in 1..Len(job.log) :
            LET inst == Installed(job.log[a])
                store == job.args.store
            IN  Navigated(job.log[a]) =>
                    IF job.args.send
                    THEN /\ Len(inst) = Len(store)
                         /\ \A i \in 1..Len(inst) :
                                \A key \in RenderKeys \cup CookieAttrs :
                                    /\ key \in DOMAIN inst[i] <=>
                                          ( /\ key \in RenderKeys
                                            /\ key \in DOMAIN store[i]
                                            /\ store[i][key] # NoneValue )
                                    /\ key \in DOMAIN inst[i] =>
                                          inst[i][key] = store[i][key]
                    ELSE inst = job.args.cookies

\* C21 witness: a call with send_cookies_session and a caller list, on a
\* session whose store held two cookies (one without expiry) and changed
\* during the call; both attempts navigated.
C21_Witness ==
    /\ job.pc = "done"
    /\ job.args.send
    /\ job.args.cookies = <<CallerCookie>>
    /\ job.args.store = <<PersistentCookie, SessionCookie>>
    /\ job.jar # job.args.store
    /\ Len(job.log) = 2
    /\ \A a \in 1..2 : Navigated(job.log[a])

\* The positions of the calls named `name` among the calls of an attempt.
OpsAt(r, name) == { k \in 1..Len(r.ops) : r.ops[k].op = name }

\* C22: when a render call has succeeded, its last attempt (number n), with
\* keep_page false, closed its tab as its last call, right after extracting
\* the HTML, and page.page is None; with keep_page true it never closed its
\* tab, which is open, and page.page is that tab.
C22_KeepPage ==
    (job.pc = "done" /\ job.c.status = "ok") =>
        LET n == Len(job.log)
            r == job.log[n]
            last == Len(r.ops)
        IN  IF job.c.keep
            THEN /\ OpsAt(r, "close") = {}
                 /\ r.open
                 /\ job.pg.page = n
            ELSE /\ OpsAt(r, "close") = {last}
                 /\ OpsAt(r, "content") = {last - 1}
                 /\ ~r.open
                 /\ job.pg.page = 0

\* C22 witness: a render with keep_page that succeeded in its second attempt.
C22_Witness ==
    /\ job.pc = "done"
    /\ job.c.status = "ok"
    /\ job.c.keep
    /\ Len(job.log) = 2
    /\ job.pg.page = 2

\* C23: a browser acquisition that returns a handle (session.browser, await
\* session.browser, or the acquisition at the head of render/arender) returns
\* a running browser, never one that close() has destroyed.
C23_ClosedIsTerminal ==
    \A t \in Callers :
        LET c == calls[t]
        IN  ( /\ Finished(t)
              /\ \/ c.op \in {"browser", "abrowser"} /\ c.status = "ok"
                 \/ c.op \in RenderOps /\ c.entered )
            => HandleLive(c.handle)

\* The step of an attempt a call belongs to: open tab, wait, cookies,
\* navigation, script, scroll phase, extraction, close.
Phase(o) ==
    CASE o.op = "newPage" -> 1
      [] o.op = "sleep" /\ o.target = "wait" -> 2
      [] o.op = "setCookie" -> 3
      [] o.op = "goto" -> 4
      [] o.op = "evaluate" -> 5
      [] o.op \in {"keydown", "keyup"} -> 6
      [] o.op = "sleep" /\ o.target = "sleep" -> 6
      [] o.op = "content" -> 7
      [] OTHER -> 8

\* The positions of the `sleep` pauses of an attempt.
SleepsAt(r) == { k \in 1..Len(r.ops) : r.ops[k] = Pause("sleep") }

C25_ReloadAndPlaceholder ==
    JobCalled =>
        \A a \in 1..Len(job.log) :
            \A k \in OpsAt(job.log[a], "goto") :
                LET g == job.log[a].ops[k]
                IN  /\ ~g.data => (job.args.reload /\ g.target = job.pg.url)
                    /\ ~job.args.reload => g.data
                    /\ g.data => g.target = job.args.html
                    /\ job.pg.url = DEFAULT_URL => g.data

\* C25 witness: render(reload=True) on a Page with the placeholder URL, and an
\* attempt of it that navigated.
C25_Witness ==
    /\ JobCalled
    /\ job.args.reload
    /\ job.pg.url = DEFAULT_URL
    /\ \E a \in 1..Len(job.log) : Navigated(job.log[a])

\* C26: an attempt in which a call timed out leaves _async_render with the
\* timeout error, also when the call was newPage (no tab exists yet); if its
\* tab was opened the tab is closed exactly once, as the last call before
\* the error is re-raised, and if not, nothing is closed.
C26_TimeoutClosesTab ==
    JobCalled =>
        \A a \in 1..Len(job.log) :
            LET r == job.log[a]
            IN  r.fault.kind = "timeout" =>
                    /\ r.raised = "TimeoutError"
                    /\ OpsAt(r, "close") = IF r.opened THEN {Len(r.ops)} ELSE {}
                    /\ ~r.open

\* C27: a render/arender call whose browser launch failed ends with the
\* launch error after exactly one launch and no render attempt, and leaves
\* its session without a browser (the next acquisition launches again).
C27_LaunchFailure ==
    \A t \in Callers :
        LET c == calls[t]
        IN  (Finished(t) /\ c.op \in RenderOps /\ c.status = "LaunchError")
            => /\ c.launches = 1
               /\ ~c.entered
               /\ c.attempts = 0
               /\ sessions[c.sess].browser = 0

\* C27 witness: a render that ended with the launch error.
C27_Witness ==
    \E t \in Callers :
        /\ Finished(t)
        /\ calls[t].op = "render"
        /\ calls[t].status = "LaunchError"
        /\ calls[t].attempts = 0

\* What the retry logic makes of the attempt outcomes `plan` with budget R:
\* the first attempt that does not merely return empty HTML decides.
Outcome(plan, R) ==
    LET S == { i \in 1..R : i <= Len(plan) /\ plan[i] # "empty" }
        k == Min(S)
    IN  IF S = {}
        THEN [attempts |-> R, status |-> "MaxRetries", content |-> ""]
        ELSE [attempts |-> k,
              status |-> CASE plan[k] = "timeout" -> "TimeoutError"
                           [] plan[k] = "exc" -> "NameError"
                           [] OTHER -> "ok",
              content |-> IF plan[k] \in Htmls THEN plan[k] ELSE ""]

\* render is called from plain code on a Page fetched by an HTMLSession,
\* arender from a coroutine on a Page fetched by an AsyncHTMLSession.
ProperUse(c) ==
    LET kind == sessions[pages[c.page].origin].kind
    IN  \/ c.op = "render" /\ ~c.inLoop /\ kind = "sync"
        \/ c.op = "arender" /\ c.inLoop /\ kind = "async"

\* The outcome of a finished call that reached its loop is the one the retry
\* logic gives for its attempt outcomes, for render and arender alike.
SameOutcome(c) ==
    LET o == Outcome(c.plan, c.retries)
    IN  /\ c.attempts = o.attempts
        /\ c.status = o.status
        /\ c.content = o.content
        /\ c.status = "ok" =>
              (pages[c.page].html = o.content /\ pages[c.page].page = c.tab)

\* C28: render and arender, each used on a Page of its own kind of session
\* and with a browser that launches, reach the retry loop alike and end with
\* the same number of attempts, the same outcome and the same Page state for
\* the same attempt outcomes and parameters.
C28_RenderArenderEquivalent ==
    \A t \in Callers :
        LET c == calls[t]
        IN  (Finished(t) /\ c.op \in RenderOps /\ ProperUse(c)
                /\ c.status # "LaunchError")
            => (c.entered /\ SameOutcome(c))

\* C29: once the program has read a document's encoding, every later read
\* returns the same value, whatever reads and writes of html and raw_html lie
\* between, until the encoding setter is called.
C29_EncodingStable ==
    parser.op # "none" => (parser.first # "" => parser.last = parser.first)

\* The marker strings of a marker list, in order (a nested list contributes
\* its strings).
RECURSIVE MarkerStrings(_)
MarkerStrings(ns) ==
    IF ns = <<>> THEN <<>>
    ELSE (IF Head(ns).kind = "list"
          THEN [i \in 1..Len(DEFAULT_NEXT_SYMBOL) |-> DEFAULT_NEXT_SYMBOL[i].s]
          ELSE <<Head(ns).s>>) \o MarkerStrings(Tail(ns))

\* C30: the marker list of a Page whose list the program never assigned
\* holds the strings 'next', 'more' and 'older' (and those added), each of
\* its elements is a string, and no marker string occurs in it twice, after
\* any sequence of add_next_symbol calls.
C30_MarkerList ==
    ~nav.assigned =>
        LET ns == nav.doc.next_symbol
            strs == MarkerStrings(ns)
        IN  /\ \A i \in 1..Len(ns) : ns[i].kind = "str"
            /\ {"next", "more", "older"} \subseteq Range(strs)
            /\ \A i, j \in 1..Len(strs) : strs[i] = strs[j] => i = j

\* C31: a render call that has succeeded changed only the Page's content,
\* caches and kept tab: the Page's session, URL, marker list and skip_anchors
\* setting are those it had when the call was made (so no session was
\* constructed for it).
C31_RenderKeepsIdentity ==
    (job.pc = "done" /\ job.c.status = "ok") =>
        /\ job.pg.session = job.args.session
        /\ job.pg.url = job.args.url
        /\ job.pg.next_symbol = job.args.next_symbol
        /\ job.pg.skip_anchors = job.args.skip_anchors

\* The attempts of the call that left their tab open.
OpenTabs == { a \in 1..Len(job.log) : job.log[a].open }

\* C32: when a render call has ended by success, TimeoutError or MaxRetries,
\* no attempt's tab is open, except the tab of the last attempt of a
\* successful call with keep_page.
C32_TabsClosed ==
    (job.pc = "done" /\ job.c.status \in {"ok", "TimeoutError", "MaxRetries"}) =>
        OpenTabs \subseteq
            (IF job.c.status = "ok" /\ job.c.keep THEN {Len(job.log)} ELSE {})

====
